---- MODULE Spec2Model ----
(***************************************************************************)
(* Model of the Geonames gate of Astrologer-API: the RateLimiter           *)
(* (app/geonames/rate_limiter.py), the CredentialManager                   *)
(* (app/geonames/credential_manager.py) and the route handlers that call   *)
(* them (app/routers/geonames_router.py).                                  *)
(*                                                                         *)
(* Time is the value of the wall clock in seconds.  The clock advances by  *)
(* the Tick action; one step of a handler reads it once.  The statements   *)
(* of one step run without an await between them and take far less than    *)
(* one clock step, so the clock reads of one step return the same value.   *)
(*                                                                         *)
(* Two specifications:                                                     *)
(*   Spec         the application: the route handlers as tasks of one      *)
(*                asyncio event loop, which runs one task at a time and    *)
(*                switches only where a task suspends.  No handler         *)
(*                suspends before its response (the lock is free whenever  *)
(*                a task runs, the upstream session is never opened), so   *)
(*                each handler is one step;                                *)
(*   SpecLimiter  the RateLimiter alone, its two methods called by         *)
(*                concurrent callers whose steps interleave freely;        *)
(*   SpecService  the application with the GeonamesService entered as the  *)
(*                context manager it is written to be (__aenter__ opens    *)
(*                the session), so that requests reach the upstream        *)
(*                service;                                                 *)
(*   SpecCredential  the application together with direct calls of the     *)
(*                methods of the CredentialManager.                        *)
(***************************************************************************)
EXTENDS Integers, Sequences, FiniteSets, TLC

\* ---------------------------------------------------------------- bounds
MaxTicks == 2
MaxCalls == 3
MaxMinuteLimit == 2
MaxHourLimit == 3

\* ------------------------------------------------------ program constants
MinuteWindow == 60
HourWindow == 3600
KeepWindow == 3600

Callers == {1, 2}
NoCaller == 0
TickSteps == {MinuteWindow, HourWindow - MinuteWindow}
NoUsername == "<None>"
Usernames == {NoUsername, "", "demo"}
GatedEndpoints == {"search", "timezone", "brazilian-search", "country-info"}
Endpoints == GatedEndpoints \cup {"status"}
LimiterMethods == {"is_allowed", "get_usage_stats"}
NoTime == -1

VARIABLES
    now,                 \* the wall clock (time.time(), datetime.now())
    ticks,               \* number of clock steps taken so far
    started,             \* number of requests received so far
    username,            \* CredentialManager.username
    last_validation,     \* CredentialManager._last_validation
    validation_result,   \* CredentialManager._validation_result
    requests_per_minute, \* RateLimiter.requests_per_minute
    requests_per_hour,   \* RateLimiter.requests_per_hour
    request_timestamps,  \* RateLimiter.request_timestamps
    requests_by_minute,  \* RateLimiter.requests_by_minute
    requests_by_hour,    \* RateLimiter.requests_by_hour
    lock,                \* RateLimiter._lock: its holder, or NoCaller
    session,             \* GeonamesService._session is set
    pc,                  \* position of each request handler
    op,                  \* endpoint each handler serves
    l_now,               \* local `now` of is_allowed / get_usage_stats
    minute_count,        \* local minute_count
    hour_count,          \* local hour_count
    allowed,             \* value returned by is_allowed to the handler
    warning,             \* limit named by the logger.warning of is_allowed
    stats,               \* value returned by get_usage_stats
    credential_status,   \* value returned by validate_credential
    response,            \* the JSONResponse of the handler
    calls,               \* the is_allowed calls so far: time and result
    answer,              \* what the upstream service answers to the request
    result,              \* local `result` of the handler, or the exception
    sent,                \* HTTP requests sent upstream for the request
    geonames,            \* the 'geonames' list of the upstream answer
    content,             \* the JSON body of the response
    returned             \* value returned by a CredentialManager method

vars == <<now, ticks, started, username, last_validation, validation_result,
          requests_per_minute, requests_per_hour, request_timestamps,
          requests_by_minute, requests_by_hour, lock, session, pc, op, l_now,
          minute_count, hour_count, allowed, warning, stats,
          credential_status, response, calls, answer, result, sent,
          geonames, content, returned>>

config_vars == <<username, requests_per_minute, requests_per_hour, session>>
credential_vars == <<last_validation, validation_result>>
limiter_vars == <<request_timestamps, requests_by_minute, requests_by_hour>>
local_vars == <<l_now, minute_count, hour_count>>
request_vars == <<answer, result, sent, geonames, content, returned>>

\* ---------------------------------------------------------------- helpers
Max(a, b) == IF a >= b THEN a ELSE b

Min(a, b) == IF a <= b THEN a ELSE b

\* a filter that keeps every timestamp
KeptAlways(ts, t) == TRUE

\* the filter of _cleanup_old_requests: `now - ts < 3600`
Kept(ts, t) == t - ts < KeepWindow

RECURSIVE CleanupOldRequests(_, _)
\* RateLimiter._cleanup_old_requests: the list it leaves, at clock value t
CleanupOldRequests(s, t) ==
    IF s = <<>> THEN <<>>
    ELSE IF Kept(Head(s), t)
         THEN <<Head(s)>> \o CleanupOldRequests(Tail(s), t)
         ELSE CleanupOldRequests(Tail(s), t)

\* a minute count that takes every retained timestamp
MinuteCountAll(s, t) == Len(s)

\* len([ts for ts in self.request_timestamps if now - ts <= 60])
MinuteCount(s, t) == Cardinality({i \in DOMAIN s : t - s[i] <= MinuteWindow})

\* len([ts for ts in self.request_timestamps if now - ts <= 3600])
HourCount(s, t) == Cardinality({i \in DOMAIN s : t - s[i] <= HourWindow})

\* RateLimiter._get_minute_key: one key per minute of the clock
GetMinuteKey(t) == t \div 60

\* RateLimiter._get_hour_key: one key per hour of the clock
GetHourKey(t) == t \div 3600

\* d[key] = d[key] + 1 on a defaultdict(int)
Increment(d, key) ==
    [k \in (DOMAIN d) \cup {key} |->
        IF k = key THEN (IF key \in DOMAIN d THEN d[key] ELSE 0) + 1
        ELSE d[k]]

EmptyDict == [k \in {} |-> 0]

\* the minute check written with > : a call at the limit passes
MinuteLimitReachedStrict(mc, limit) == mc > limit

\* the condition of `if minute_count >= self.requests_per_minute`
MinuteLimitReached(mc, limit) == mc >= limit

\* the hour check left out
HourLimitReachedNever(hc, limit) == FALSE

\* the condition of `if hour_count >= self.requests_per_hour`
HourLimitReached(hc, limit) == hc >= limit

\* "remaining": max(0, limit - count)
Remaining(limit, count) == Max(0, limit - count)

\* the percentage without the guard on the limit: a division by the limit
PercentUsedUnguarded(count, limit) == [num |-> count * 100, den |-> limit]

\* "percent_used": (count / limit) * 100 if limit > 0 else 0, as the
\* fraction num / den
PercentUsed(count, limit) ==
    IF limit > 0 THEN [num |-> count * 100, den |-> limit]
    ELSE [num |-> 0, den |-> 1]

\* one window of the dictionary returned by get_usage_stats
WindowStats(count, limit) ==
    [count |-> count, limit |-> limit,
     remaining |-> Remaining(limit, count),
     percent_used |-> PercentUsed(count, limit)]

\* the dictionary returned by get_usage_stats
UsageStats(mc, hc, rpm, rph) ==
    [current_minute |-> WindowStats(mc, rpm),
     current_hour |-> WindowStats(hc, rph)]

NoStats == UsageStats(0, 0, 0, 0)

\* a check that takes every configured value for a credential
IsCredentialValidAlways(u) == TRUE

\* CredentialManager.is_credential_valid: bool(self.username); None and the
\* empty string are false, every other string is true
IsCredentialValid(u) == u # NoUsername /\ u # ""

\* a format that leaves out the date and the hour
IsoFormatMinutes(t) == <<0, (t \div 60) % 60, t % 60>>

\* datetime.isoformat(): the clock value as date and hour (the hours since
\* time 0), minutes and seconds
IsoFormat(t) == <<t \div 3600, (t \div 60) % 60, t % 60>>

NoCredentialStatus == [is_valid |-> FALSE, last_checked |-> NoTime, error |-> ""]

NoResponse == [status |-> 0, detail |-> ""]

Response(status, detail) == [status |-> status, detail |-> detail]

NoContent ==
    [body |-> "none", credential_status |-> NoCredentialStatus,
     rate_limiting |-> NoStats, geonames |-> <<>>]

\* ------------------------------------------------------------------- Init
Init ==
    /\ now = 0
    /\ ticks = 0
    /\ started = 0
    /\ username \in Usernames
    /\ last_validation = NoTime
    /\ validation_result = FALSE
    /\ requests_per_minute \in 0..MaxMinuteLimit
    /\ requests_per_hour \in 0..MaxHourLimit
    /\ request_timestamps = <<>>
    /\ requests_by_minute = EmptyDict
    /\ requests_by_hour = EmptyDict
    /\ lock = NoCaller
    /\ session = FALSE
    /\ pc = [c \in Callers |-> "idle"]
    /\ op = [c \in Callers |-> "none"]
    /\ l_now = [c \in Callers |-> NoTime]
    /\ minute_count = [c \in Callers |-> 0]
    /\ hour_count = [c \in Callers |-> 0]
    /\ allowed = [c \in Callers |-> "none"]
    /\ warning = [c \in Callers |-> "none"]
    /\ stats = [c \in Callers |-> NoStats]
    /\ credential_status = [c \in Callers |-> NoCredentialStatus]
    /\ response = [c \in Callers |-> NoResponse]
    /\ calls = <<>>
    /\ answer = [c \in Callers |-> "none"]
    /\ result = [c \in Callers |-> "none"]
    /\ sent = [c \in Callers |-> 0]
    /\ geonames = [c \in Callers |-> <<>>]
    /\ content = [c \in Callers |-> NoContent]
    /\ returned = [c \in Callers |-> "none"]

\* ------------------------------------------------- the RateLimiter, pure
\* the outcome of the two limit checks of is_allowed: the limit whose check
\* returns False, or "none" when the request is recorded
LimitCheck(mc, hc, rpm, rph) ==
    IF MinuteLimitReached(mc, rpm) THEN "minute"
    ELSE IF HourLimitReached(hc, rph) THEN "hour"
    ELSE "none"

\* is_allowed called at clock value t on the list s: the limit that rejects
\* the call, or "none" when the call is recorded
IsAllowedOutcome(s, t, rpm, rph) ==
    LET kept == CleanupOldRequests(s, t)
    IN LimitCheck(MinuteCount(kept, t), HourCount(kept, t), rpm, rph)

\* a Python bool as the handler sees it
Bool(b) == IF b THEN "True" ELSE "False"

\* a snapshot that records itself as a request
SnapshotTimestampsRecording(s, t) == Append(CleanupOldRequests(s, t), t)

\* the list get_usage_stats leaves: cleaned up, nothing appended
SnapshotTimestamps(s, t) == CleanupOldRequests(s, t)

\* every call is appended, the rejected ones too
RecordedAlways(s, t, ok) == Append(s, t)

\* the list is_allowed leaves: the request is appended when it is recorded
Recorded(s, t, ok) == IF ok THEN Append(s, t) ELSE s

\* a counter that is incremented by rejected calls too
CountedAlways(d, key, ok) == Increment(d, key)

\* a counter dictionary as is_allowed leaves it
Counted(d, key, ok) == IF ok THEN Increment(d, key) ELSE d

\* a result dictionary that always carries the "error" key
ValidationResultAlwaysError(u, t) ==
    [is_valid |-> IsCredentialValid(u),
     last_checked |-> IsoFormat(t),
     error |-> "Geonames username not configured"]

\* the result dictionary of validate_credential, checked at clock value t:
\* the "error" key is set only `if not is_valid`
ValidationResult(u, t) ==
    IF IsCredentialValid(u)
    THEN [is_valid |-> TRUE, last_checked |-> IsoFormat(t)]
    ELSE [is_valid |-> FALSE, last_checked |-> IsoFormat(t),
          error |-> "Geonames username not configured"]

\* a placeholder that asks for rotation once a request has been recorded
NeedsRotationWhenUsed == request_timestamps # <<>>

\* CredentialManager.needs_rotation: return False
NeedsRotation == FALSE

\* a rotation that is refused by raising
RotateCredentialRaises == "NotImplementedError"

\* CredentialManager.rotate_credential: log the request, return False
RotateCredential == "False"

\* a lock released by hand on the recording path only: the early returns
\* of a rejected call leave it held
LockReleasedWhenRecorded(l, c, ok) == IF l = c /\ ok THEN NoCaller ELSE l

\* the exit of `async with self._lock`: the holder releases the lock on
\* every path out of the block, the early returns included
LockReleased(l, c, ok) == IF l = c THEN NoCaller ELSE l

\* a lock that excludes nobody
LockFreeAlways == TRUE

\* the guard of `async with self._lock`: the lock is free
LockFree == lock = NoCaller

\* the outcomes of a request to the upstream service: status 200 with a
\* JSON body, another status with an error body, or a transport error
UpstreamOutcomes == {"ok", "bad_status", "exception"}

\* the body the upstream service sends with its answer
UpstreamBody(o) ==
    IF o = "ok" THEN "upstream_json"
    ELSE IF o = "bad_status" THEN "upstream_error"
    ELSE "none"

\* a handler that calls the service without asking the rate limiter
ServiceCalledUnlessInvalid(ok, valid) == valid

\* a handler that calls the service without checking the credential
ServiceCalledWhenAllowed(ok, valid) == ok

\* the handler reaches its call of the GeonamesService: is_allowed returned
\* True and is_credential_valid returned True
ServiceCalled(ok, valid) == ok /\ valid

\* a service method that returns the body whatever the status
ServiceResultUnchecked(sess, u, o) ==
    IF ~sess THEN "RuntimeError"
    ELSE IF ~IsCredentialValid(u) THEN "ValueError"
    ELSE IF o \in {"ok", "bad_status"} THEN "data"
    ELSE "None"

\* GeonamesService.search, get_timezone, get_country_info: the exception
\* raised or the value returned when the upstream service answers o
ServiceResult(sess, u, o) ==
    IF ~sess THEN "RuntimeError"
    ELSE IF ~IsCredentialValid(u) THEN "ValueError"
    ELSE IF o = "ok" THEN "data"
    ELSE "None"

\* the HTTP requests a service method sends: one `self._session.get`, after
\* its two checks
RequestsSent(sess, u) == IF sess /\ IsCredentialValid(u) THEN 1 ELSE 0

\* the status and detail of the response of a gated handler; res is "none"
\* when the service was not called
HandlerResponse(ok, valid, res) ==
    IF ~ok THEN Response(429, "Rate limit exceeded")
    ELSE IF ~valid
    THEN Response(401, "Geonames credentials not configured")
    ELSE IF res \in {"RuntimeError", "ValueError"}
    THEN Response(500, "Internal server error")
    ELSE IF res = "None"
    THEN Response(500, "Error contacting Geonames service")
    ELSE Response(200, "")

\* a handler that gives the quota back when the request fails: the
\* timestamp that is_allowed appended is removed on 401 and 500
TimestampsRefundedOnError(s, status) ==
    IF status \in {401, 500} /\ s # <<>> THEN SubSeq(s, 1, Len(s) - 1)
    ELSE s

\* the list of the RateLimiter when the handler returns its response: no
\* path of a handler after is_allowed touches the RateLimiter
TimestampsAfterResponse(s, status) == s

\* the place names the upstream service answers with: one the table holds
\* as it is written, one it holds in another case, one it does not hold
PlaceNames == {"São Paulo", "SANTOS", "Xique-Xique"}

\* str.lower() on the place names
Lower(name) ==
    IF name = "São Paulo" THEN "são paulo"
    ELSE IF name = "SANTOS" THEN "santos"
    ELSE "xique-xique"

\* PtBrOptimizer.BRAZILIAN_CITIES, the entries the place names can meet
BRAZILIAN_CITIES == ("são paulo" :> "São Paulo") @@ ("santos" :> "Santos")

\* PtBrOptimizer.get_portuguese_city_name
GetPortugueseCityName(city_name) ==
    IF Lower(city_name) \in DOMAIN BRAZILIAN_CITIES
    THEN BRAZILIAN_CITIES[Lower(city_name)]
    ELSE city_name

\* the dictionary of get_brazil_timezone, the entries the place names can
\* meet
brazil_timezones == ("são paulo" :> "America/Sao_Paulo")

\* PtBrOptimizer.get_brazil_timezone; "None" when the city is not listed
GetBrazilTimezone(city_name) ==
    IF Lower(city_name) \in DOMAIN brazil_timezones
    THEN brazil_timezones[Lower(city_name)]
    ELSE "None"

\* the country codes of the upstream locations
CountryCodes == {"BR", "AR"}

\* the locations of an upstream answer
Geonames == [name : PlaceNames, countryCode : CountryCodes]

\* the most locations in one upstream answer
MaxResults == 1

\* the 'geonames' lists of an upstream answer
UpstreamGeonames ==
    UNION {[1..n -> Geonames] : n \in 0..MaxResults}

\* the loop body of search_brazilian_places: a Brazilian location gets
\* 'portugueseName' when the Portuguese name differs from its name
Enhance(geoname) ==
    IF /\ geoname.countryCode = "BR"
       /\ GetPortugueseCityName(geoname.name) # geoname.name
    THEN [name |-> geoname.name, countryCode |-> geoname.countryCode,
          portugueseName |-> GetPortugueseCityName(geoname.name)]
    ELSE geoname

\* PtBrOptimizer.format_brazilian_location for a location with
\* countryCode 'BR': a new dictionary with its own keys
FormatBrazilianLocation(geoname) ==
    [name |-> geoname.name,
     portuguese_name |-> GetPortugueseCityName(geoname.name),
     country_code |-> geoname.countryCode,
     timezone |-> IF GetBrazilTimezone(geoname.name) = "None"
                  THEN "America/Sao_Paulo"
                  ELSE GetBrazilTimezone(geoname.name),
     is_brazilian |-> TRUE]

\* the loop body of geonames_brazilian_search: a Brazilian location is
\* replaced by its formatted dictionary
Formatted(geoname) ==
    IF geoname.countryCode = "BR" THEN FormatBrazilianLocation(geoname)
    ELSE geoname

\* the 'geonames' list of the 200 response of geonames_brazilian_search
BrazilianGeonames(gs) == [i \in DOMAIN gs |-> Formatted(Enhance(gs[i]))]

\* the 'geonames' lists the upstream service may answer a request of
\* endpoint e with; only the brazilian-search handler reads the list
AnswerGeonames(e, o) ==
    IF e = "brazilian-search" /\ o = "ok" THEN UpstreamGeonames ELSE {<<>>}

\* the JSON body of the response of a gated handler: the result of the
\* service on status 200, {"status": "ERROR", "detail": ...} otherwise
HandlerContent(e, res, o, gs) ==
    [NoContent EXCEPT !.body = IF res = "data" THEN UpstreamBody(o)
                               ELSE "error",
                      !.geonames = IF res = "data" /\ e = "brazilian-search"
                                   THEN BrazilianGeonames(gs)
                                   ELSE <<>>]

\* a status body that leaves out the rate limiting report
StatusContentWithoutLimits(cs, rl) ==
    [body |-> "status_report", credential_status |-> cs,
     rate_limiting |-> NoStats, geonames |-> <<>>]

\* the JSON body of the response of the status handler
StatusContent(cs, rl) ==
    [body |-> "status_report", credential_status |-> cs,
     rate_limiting |-> rl, geonames |-> <<>>]

\* ---------------------------------------------------------------- actions
\* the wall clock advances
Tick ==
    /\ ticks < MaxTicks
    /\ \E d \in TickSteps : now' = now + d
    /\ ticks' = ticks + 1
    /\ UNCHANGED <<started, config_vars, credential_vars, limiter_vars, lock,
                   pc, op, local_vars, allowed, warning, stats,
                   credential_status, response, calls, request_vars>>

\* the event loop is free to start a task: no other task is running
LoopFree == \A d \in Callers : pc[d] = "idle"

\* The handler of a gated endpoint e, from the request to the response:
\* is_allowed (lock, clean up, count, check, record), then the credential
\* check, then the call of the GeonamesService, to which the upstream
\* service has the answer o (it is asked only when the service sends the
\* request).
GatedHandler(c, e) ==
    /\ LoopFree
    /\ LockFree
    /\ started < MaxCalls
    /\ started' = started + 1
    /\ op' = [op EXCEPT ![c] = e]
    /\ LET kept == CleanupOldRequests(request_timestamps, now)
           w == IsAllowedOutcome(request_timestamps, now,
                                 requests_per_minute, requests_per_hour)
           ok == w = "none"
       IN /\ requests_by_minute' =
                Counted(requests_by_minute, GetMinuteKey(now), ok)
          /\ requests_by_hour' =
                Counted(requests_by_hour, GetHourKey(now), ok)
          /\ warning' = [warning EXCEPT ![c] = w]
          /\ allowed' = [allowed EXCEPT ![c] = Bool(ok)]
          /\ calls' = Append(calls, [t |-> now, ok |-> ok])
          /\ \E o \in UpstreamOutcomes : \E gs \in AnswerGeonames(e, o) :
                LET valid == IsCredentialValid(username)
                    called == ServiceCalled(ok, valid)
                    res == IF called
                           THEN ServiceResult(session, username, o)
                           ELSE "none"
                IN /\ request_timestamps' =
                        TimestampsAfterResponse(
                            Recorded(kept, now, ok),
                            HandlerResponse(ok, valid, res).status)
                   /\ answer' = [answer EXCEPT ![c] =
                                    IF called THEN o ELSE "none"]
                   /\ result' = [result EXCEPT ![c] = res]
                   /\ sent' = [sent EXCEPT ![c] =
                                IF called THEN RequestsSent(session, username)
                                ELSE 0]
                   /\ response' = [response EXCEPT ![c] =
                                        HandlerResponse(ok, valid, res)]
                   /\ geonames' = [geonames EXCEPT ![c] =
                                    IF res = "data" THEN gs ELSE <<>>]
                   /\ content' = [content EXCEPT ![c] =
                                        HandlerContent(e, res, o, gs)]
    /\ pc' = [pc EXCEPT ![c] = "done"]
    /\ UNCHANGED <<now, ticks, config_vars, credential_vars, lock,
                   local_vars, stats, credential_status, returned>>

geonames_search(c) == GatedHandler(c, "search")

geonames_timezone(c) == GatedHandler(c, "timezone")

geonames_brazilian_search(c) == GatedHandler(c, "brazilian-search")

geonames_country_info(c) == GatedHandler(c, "country-info")

\* The handler of the status endpoint: validate_credential, then
\* get_usage_stats (lock, clean up, count, report), then the response.
geonames_status(c) ==
    /\ LoopFree
    /\ LockFree
    /\ op' = [op EXCEPT ![c] = "status"]
    /\ last_validation' = now
    /\ validation_result' = IsCredentialValid(username)
    /\ credential_status' = [credential_status EXCEPT ![c] =
                                ValidationResult(username, now)]
    /\ LET kept == SnapshotTimestamps(request_timestamps, now)
           report == UsageStats(MinuteCount(kept, now), HourCount(kept, now),
                                requests_per_minute, requests_per_hour)
       IN /\ request_timestamps' = kept
          /\ stats' = [stats EXCEPT ![c] = report]
          /\ content' = [content EXCEPT ![c] =
                StatusContent(ValidationResult(username, now), report)]
    /\ response' = [response EXCEPT ![c] = Response(200, "")]
    /\ pc' = [pc EXCEPT ![c] = "done"]
    /\ UNCHANGED <<now, ticks, started, config_vars, requests_by_minute,
                   requests_by_hour, lock, local_vars, allowed, warning,
                   calls, answer, result, sent, geonames, returned>>

\* a caller of the RateLimiter calls is_allowed and reaches
\* `async with self._lock`
CallIsAllowed(c) ==
    /\ pc[c] = "idle"
    /\ started < MaxCalls
    /\ started' = started + 1
    /\ op' = [op EXCEPT ![c] = "is_allowed"]
    /\ pc' = [pc EXCEPT ![c] = "ia_lock"]
    /\ UNCHANGED <<now, ticks, config_vars, credential_vars, limiter_vars,
                   lock, local_vars, allowed, warning, stats,
                   credential_status, response, calls, request_vars>>

\* a caller of the RateLimiter calls get_usage_stats and reaches
\* `async with self._lock`
CallGetUsageStats(c) ==
    /\ pc[c] = "idle"
    /\ op' = [op EXCEPT ![c] = "get_usage_stats"]
    /\ pc' = [pc EXCEPT ![c] = "gs_lock"]
    /\ UNCHANGED <<now, ticks, started, config_vars, credential_vars,
                   limiter_vars, lock, local_vars, allowed, warning, stats,
                   credential_status, response, calls, request_vars>>

\* is_allowed: `async with self._lock` acquires the lock; then read the
\* clock, clean up and count both windows
IsAllowedObserve(c) ==
    /\ pc[c] = "ia_lock"
    /\ LockFree
    /\ lock' = c
    /\ l_now' = [l_now EXCEPT ![c] = now]
    /\ request_timestamps' = CleanupOldRequests(request_timestamps, now)
    /\ minute_count' = [minute_count EXCEPT ![c] =
                            MinuteCount(request_timestamps', now)]
    /\ hour_count' = [hour_count EXCEPT ![c] =
                            HourCount(request_timestamps', now)]
    /\ pc' = [pc EXCEPT ![c] = "ia_check"]
    /\ UNCHANGED <<now, ticks, started, config_vars, credential_vars,
                   requests_by_minute, requests_by_hour, op, allowed,
                   warning, stats, credential_status, response, calls,
                   request_vars>>

\* is_allowed: check the limits, record the request, release the lock and
\* return
IsAllowedCheck(c) ==
    /\ pc[c] = "ia_check"
    /\ LET w == LimitCheck(minute_count[c], hour_count[c],
                           requests_per_minute, requests_per_hour)
           ok == w = "none"
       IN /\ warning' = [warning EXCEPT ![c] = w]
          /\ allowed' = [allowed EXCEPT ![c] = Bool(ok)]
          /\ calls' = Append(calls, [t |-> l_now[c], ok |-> ok])
          /\ request_timestamps' = Recorded(request_timestamps, l_now[c], ok)
          /\ requests_by_minute' =
                Counted(requests_by_minute, GetMinuteKey(l_now[c]), ok)
          /\ requests_by_hour' =
                Counted(requests_by_hour, GetHourKey(l_now[c]), ok)
          /\ lock' = LockReleased(lock, c, ok)
    /\ pc' = [pc EXCEPT ![c] = "done"]
    /\ l_now' = [l_now EXCEPT ![c] = NoTime]
    /\ minute_count' = [minute_count EXCEPT ![c] = 0]
    /\ hour_count' = [hour_count EXCEPT ![c] = 0]
    /\ UNCHANGED <<now, ticks, started, config_vars, credential_vars, op,
                   stats, credential_status, response, request_vars>>

\* get_usage_stats: `async with self._lock` acquires the lock; then read
\* the clock, clean up and count both windows
GetUsageStatsObserve(c) ==
    /\ pc[c] = "gs_lock"
    /\ LockFree
    /\ lock' = c
    /\ l_now' = [l_now EXCEPT ![c] = now]
    /\ request_timestamps' = SnapshotTimestamps(request_timestamps, now)
    /\ minute_count' = [minute_count EXCEPT ![c] =
                            MinuteCount(request_timestamps', now)]
    /\ hour_count' = [hour_count EXCEPT ![c] =
                            HourCount(request_timestamps', now)]
    /\ pc' = [pc EXCEPT ![c] = "gs_report"]
    /\ UNCHANGED <<now, ticks, started, config_vars, credential_vars,
                   requests_by_minute, requests_by_hour, op, allowed,
                   warning, stats, credential_status, response, calls,
                   request_vars>>

\* get_usage_stats: build the report, release the lock and return
GetUsageStatsReport(c) ==
    /\ pc[c] = "gs_report"
    /\ stats' = [stats EXCEPT ![c] =
                    UsageStats(minute_count[c], hour_count[c],
                               requests_per_minute, requests_per_hour)]
    /\ pc' = [pc EXCEPT ![c] = "done"]
    /\ lock' = LockReleased(lock, c, TRUE)
    /\ l_now' = [l_now EXCEPT ![c] = NoTime]
    /\ minute_count' = [minute_count EXCEPT ![c] = 0]
    /\ hour_count' = [hour_count EXCEPT ![c] = 0]
    /\ UNCHANGED <<now, ticks, started, config_vars, credential_vars,
                   limiter_vars, op, allowed, warning, credential_status,
                   response, calls, request_vars>>

\* the call has returned (the response has been sent): its frame is gone
Return(c) ==
    /\ pc[c] = "done"
    /\ pc' = [pc EXCEPT ![c] = "idle"]
    /\ op' = [op EXCEPT ![c] = "none"]
    /\ allowed' = [allowed EXCEPT ![c] = "none"]
    /\ warning' = [warning EXCEPT ![c] = "none"]
    /\ stats' = [stats EXCEPT ![c] = NoStats]
    /\ credential_status' = [credential_status EXCEPT ![c] = NoCredentialStatus]
    /\ response' = [response EXCEPT ![c] = NoResponse]
    /\ answer' = [answer EXCEPT ![c] = "none"]
    /\ result' = [result EXCEPT ![c] = "none"]
    /\ sent' = [sent EXCEPT ![c] = 0]
    /\ geonames' = [geonames EXCEPT ![c] = <<>>]
    /\ content' = [content EXCEPT ![c] = NoContent]
    /\ returned' = [returned EXCEPT ![c] = "none"]
    /\ UNCHANGED <<now, ticks, started, config_vars, credential_vars,
                   limiter_vars, lock, local_vars, calls>>

\* GeonamesService.__aenter__: the session is opened
aenter ==
    /\ LoopFree
    /\ ~session
    /\ session' = TRUE
    /\ UNCHANGED <<now, ticks, started, username, requests_per_minute,
                   requests_per_hour, credential_vars, limiter_vars, lock,
                   pc, op, local_vars, allowed, warning, stats,
                   credential_status, response, calls, request_vars>>

\* a rotation that drops the username it could not replace
UsernameAfterRotationLost(method, u) ==
    IF method = "rotate_credential" THEN NoUsername ELSE u

\* self.username after a method of the CredentialManager: no method
\* assigns it
UsernameAfter(method, u) == u

\* a validity check that stores its result as the validation result
OutcomeAfterCached(method, prev, u) ==
    IF method = "is_credential_valid" THEN IsCredentialValid(u) ELSE prev

\* self._validation_result after a method other than validate_credential:
\* none of them assigns it
OutcomeAfter(method, prev, u) == prev

\* a call of a CredentialManager method other than validate_credential,
\* with return value v; it runs to its return once its task is scheduled
CredentialCall(c, method, v) ==
    /\ pc[c] = "idle"
    /\ op' = [op EXCEPT ![c] = method]
    /\ returned' = [returned EXCEPT ![c] = v]
    /\ username' = UsernameAfter(method, username)
    /\ validation_result' = OutcomeAfter(method, validation_result, username)
    /\ pc' = [pc EXCEPT ![c] = "done"]
    /\ UNCHANGED <<now, ticks, started, requests_per_minute,
                   requests_per_hour, session, last_validation,
                   limiter_vars, lock, local_vars, allowed, warning, stats,
                   credential_status, response, calls, answer, result, sent,
                   geonames, content>>

\* CredentialManager.get_current_credential_info: the dictionary returned
get_current_credential_info(c) ==
    CredentialCall(c, "get_current_credential_info",
                   [username |-> username,
                    is_valid |-> IsCredentialValid(username),
                    last_validation |-> last_validation,
                    validation_result |-> validation_result])

\* CredentialManager.is_credential_valid
is_credential_valid(c) ==
    CredentialCall(c, "is_credential_valid", Bool(IsCredentialValid(username)))

\* CredentialManager.needs_rotation
needs_rotation(c) == CredentialCall(c, "needs_rotation", Bool(NeedsRotation))

\* CredentialManager.rotate_credential
rotate_credential(c) == CredentialCall(c, "rotate_credential", RotateCredential)

\* CredentialManager.validate_credential: check the username, record the
\* time and the outcome, return the result dictionary
validate_credential(c) ==
    /\ pc[c] = "idle"
    /\ op' = [op EXCEPT ![c] = "validate_credential"]
    /\ last_validation' = now
    /\ validation_result' = IsCredentialValid(username)
    /\ credential_status' = [credential_status EXCEPT ![c] =
                                ValidationResult(username, now)]
    /\ pc' = [pc EXCEPT ![c] = "done"]
    /\ UNCHANGED <<now, ticks, started, config_vars, limiter_vars, lock,
                   local_vars, allowed, warning, stats, response, calls,
                   request_vars>>

\* --------------------------------------------------------- specifications
Next ==
    \/ Tick
    \/ \E c \in Callers : geonames_status(c)
    \/ \E c \in Callers : geonames_search(c)
    \/ \E c \in Callers : geonames_timezone(c)
    \/ \E c \in Callers : geonames_brazilian_search(c)
    \/ \E c \in Callers : geonames_country_info(c)
    \/ \E c \in Callers : Return(c)

Spec == Init /\ [][Next]_vars

NextLimiter ==
    \/ Tick
    \/ \E c \in Callers : CallIsAllowed(c)
    \/ \E c \in Callers : CallGetUsageStats(c)
    \/ \E c \in Callers : IsAllowedObserve(c)
    \/ \E c \in Callers : IsAllowedCheck(c)
    \/ \E c \in Callers : GetUsageStatsObserve(c)
    \/ \E c \in Callers : GetUsageStatsReport(c)
    \/ \E c \in Callers : Return(c)

\* the RateLimiter alone: no credential is involved
InitLimiter == Init /\ username = "demo"

SpecLimiter == InitLimiter /\ [][NextLimiter]_vars

\* The RateLimiter under the scheduling of asyncio. The event loop runs
\* every ready task, so a task that holds the lock takes its next step
\* (weak fairness of the steps inside the block); asyncio.Lock wakes its
\* waiters in the order they came, so a task that waits at
\* `async with self._lock` gets the lock although other tasks take it in
\* between (strong fairness of the acquisition).
FairLimiter ==
    \A c \in Callers :
        /\ SF_vars(IsAllowedObserve(c))
        /\ SF_vars(GetUsageStatsObserve(c))
        /\ WF_vars(IsAllowedCheck(c))
        /\ WF_vars(GetUsageStatsReport(c))

\* the RateLimiter alone, constructed with the largest limits
InitLimiterFair ==
    /\ InitLimiter
    /\ requests_per_minute = MaxMinuteLimit
    /\ requests_per_hour = MaxHourLimit

SpecLimiterFair == InitLimiterFair /\ [][NextLimiter]_vars /\ FairLimiter

\* an await inside the block of `async with self._lock`
SuspendsInsideAlways == TRUE

\* the awaits inside the blocks of `async with self._lock`
\* (rate_limiter.py:49-74 and 79-101): there are none
SuspendsInside == FALSE

\* the task d is not running: it has not started or has returned, it
\* waits for the lock, or it is suspended inside the block of the lock
Suspended(d) ==
    \/ pc[d] \in {"idle", "done"}
    \/ pc[d] \in {"ia_lock", "gs_lock"} /\ ~LockFree
    \/ pc[d] \in {"ia_check", "gs_report"} /\ SuspendsInside

\* the event loop runs the task c: a task runs until it suspends, so every
\* other task is suspended
Runs(c) == \A d \in Callers \ {c} : Suspended(d)

\* the RateLimiter called by the tasks of one asyncio event loop
NextLoop ==
    \/ Tick
    \/ \E c \in Callers : Runs(c) /\ CallIsAllowed(c)
    \/ \E c \in Callers : Runs(c) /\ CallGetUsageStats(c)
    \/ \E c \in Callers : Runs(c) /\ IsAllowedObserve(c)
    \/ \E c \in Callers : Runs(c) /\ IsAllowedCheck(c)
    \/ \E c \in Callers : Runs(c) /\ GetUsageStatsObserve(c)
    \/ \E c \in Callers : Runs(c) /\ GetUsageStatsReport(c)
    \/ \E c \in Callers : Runs(c) /\ Return(c)

SpecLoop == InitLimiter /\ [][NextLoop]_vars

\* the limits of the RateLimiter at their largest
InitLimits ==
    /\ Init
    /\ requests_per_minute = MaxMinuteLimit
    /\ requests_per_hour = MaxHourLimit

NextService ==
    \/ Next
    \/ aenter

SpecService == InitLimits /\ [][NextService]_vars

NextCredential ==
    \/ Next
    \/ \E c \in Callers : is_credential_valid(c)
    \/ \E c \in Callers : validate_credential(c)
    \/ \E c \in Callers : needs_rotation(c)
    \/ \E c \in Callers : rotate_credential(c)
    \/ \E c \in Callers : get_current_credential_info(c)

SpecCredential == InitLimits /\ [][NextCredential]_vars

\* ------------------------------------------------------------------ claims
\* the callers that have returned from is_allowed
ReturnedIsAllowed(c) == pc[c] = "done" /\ op[c] = "is_allowed"

\* the callers that have returned from get_usage_stats
ReturnedGetUsageStats(c) == pc[c] = "done" /\ op[c] = "get_usage_stats"

\* the admitted calls of the history that are aged at most w at time t
AdmittedWithin(t, w) ==
    {k \in DOMAIN calls : calls[k].ok /\ t - calls[k].t <= w}

\* the recorded timestamps aged at most w at time t
TimestampsWithin(t, w) ==
    {i \in DOMAIN request_timestamps : t - request_timestamps[i] <= w}

\* C1: under every interleaving of concurrent callers of is_allowed, the
\* recorded timestamps aged at most 60 seconds never number more than
\* requests_per_minute, and no admitted call had requests_per_minute
\* admitted calls before it in the 60 seconds up to its own time.
C1_MinuteQuotaNeverExceeded ==
    /\ Cardinality(TimestampsWithin(now, MinuteWindow)) <= requests_per_minute
    /\ \A k \in DOMAIN calls :
          calls[k].ok =>
            Cardinality({j \in 1..k : calls[j].ok
                            /\ calls[k].t - calls[j].t <= MinuteWindow})
                <= requests_per_minute

\* C1 witness: two callers were inside is_allowed at once with room for one
\* of them; one was admitted and filled the minute quota, the other was
\* rejected
C1_Witness ==
    \E c, d \in Callers :
        /\ c # d
        /\ ReturnedIsAllowed(c) /\ allowed[c] = "True"
        /\ ReturnedIsAllowed(d) /\ allowed[d] = "False"
        /\ warning[d] = "minute"
        /\ requests_per_minute > 0
        /\ Cardinality(TimestampsWithin(now, MinuteWindow)) = requests_per_minute

\* the calls made so far all lie within one 60-second span
AllCallsInOneMinute ==
    calls # <<>> /\ calls[Len(calls)].t - calls[1].t <= MinuteWindow

\* C2 as stated: of N calls made within a 60-second span with minute limit
\* L, the first min(N, L) return true and all later ones return false.
C2_FirstLSucceed ==
    AllCallsInOneMinute =>
        \A k \in DOMAIN calls : calls[k].ok <=> k <= requests_per_minute

\* C2 amended: of N calls made to a new RateLimiter within a 60-second span
\* with minute limit L and hour limit H, the first min(N, L, H) return true
\* and all later ones return false.
C2_FirstMinLHSucceed ==
    AllCallsInOneMinute =>
        \A k \in DOMAIN calls :
            calls[k].ok <=> k <= Min(requests_per_minute, requests_per_hour)

\* C2 witness: three calls within one 60-second span, at two instants, with
\* minute limit 2 and a larger hour limit: true, true, false
C2_Witness ==
    /\ AllCallsInOneMinute
    /\ Len(calls) = 3
    /\ requests_per_minute = 2
    /\ requests_per_hour > 2
    /\ calls[1].ok /\ calls[2].ok /\ ~calls[3].ok
    /\ calls[3].t > calls[1].t

\* c takes the step of is_allowed that checks the limits and returns
ChecksLimits(c) == pc[c] = "ia_check" /\ pc'[c] = "done"

\* C3: a call of is_allowed made when the count of a window equals that
\* window's limit (0 = 0 included) returns false; a call returns true only
\* when both counts are strictly below their limits.
C3_AtLimitRejected ==
    [][\A c \in Callers :
        ChecksLimits(c) =>
            LET mc == Cardinality(TimestampsWithin(l_now[c], MinuteWindow))
                hc == Cardinality(TimestampsWithin(l_now[c], HourWindow))
            IN /\ (mc = requests_per_minute \/ hc = requests_per_hour)
                    => allowed'[c] = "False"
               /\ allowed'[c] = "True"
                    <=> (mc < requests_per_minute /\ hc < requests_per_hour)
      ]_vars

\* C3 witness: a call found the minute count equal to a positive minute
\* limit and was rejected
C3_Witness ==
    \E c \in Callers :
        /\ ReturnedIsAllowed(c)
        /\ allowed[c] = "False"
        /\ requests_per_minute > 0
        /\ Cardinality(TimestampsWithin(calls[Len(calls)].t, MinuteWindow))
              = requests_per_minute
        /\ lock = NoCaller

\* C4: whenever the timestamps recorded in the trailing 3600 seconds number
\* requests_per_hour or more, is_allowed returns false, also when the minute
\* count is below requests_per_minute; the minute check comes first: the
\* warning names the minute limit whenever the minute limit is reached.
C4_HourWindowEnforced ==
    [][\A c \in Callers :
        ChecksLimits(c) =>
            LET mc == Cardinality(TimestampsWithin(l_now[c], MinuteWindow))
                hc == Cardinality(TimestampsWithin(l_now[c], HourWindow))
            IN /\ hc >= requests_per_hour => allowed'[c] = "False"
               /\ mc >= requests_per_minute => warning'[c] = "minute"
               /\ (mc < requests_per_minute /\ hc >= requests_per_hour)
                    => warning'[c] = "hour"
      ]_vars

\* C4 witness: a call was rejected by the hour limit with room left in the
\* minute window
C4_Witness ==
    \E c \in Callers :
        /\ ReturnedIsAllowed(c)
        /\ allowed[c] = "False"
        /\ warning[c] = "hour"
        /\ Cardinality(TimestampsWithin(calls[Len(calls)].t, MinuteWindow))
              < requests_per_minute

\* c takes the step of is_allowed or get_usage_stats that cleans up and
\* counts
Observes(c) ==
    \/ pc[c] = "ia_lock" /\ pc'[c] = "ia_check"
    \/ pc[c] = "gs_lock" /\ pc'[c] = "gs_report"

\* C5: a call of is_allowed or get_usage_stats counts no timestamp older
\* than 3600 seconds in either window and removes every such timestamp from
\* the recorded list.
C5_OldTimestampsPruned ==
    [][\A c \in Callers :
        Observes(c) =>
            LET fresh == {i \in DOMAIN request_timestamps :
                            ~(now - request_timestamps[i] > 3600)}
            IN /\ \A i \in DOMAIN request_timestamps' :
                    ~(now - request_timestamps'[i] > 3600)
               /\ minute_count'[c] <= Cardinality(fresh)
               /\ hour_count'[c] <= Cardinality(fresh)
               /\ minute_count'[c] =
                    Cardinality({i \in fresh :
                        now - request_timestamps[i] <= MinuteWindow})
      ]_vars

\* C5 witness: a call has cleaned up while the only call ever admitted was
\* older than 3600 seconds, and the list is empty
C5_Witness ==
    /\ \E c \in Callers : pc[c] \in {"ia_check", "gs_report"}
    /\ Len(calls) = 1
    /\ calls[1].ok
    /\ now - calls[1].t > 3600
    /\ request_timestamps = <<>>

\* c takes a step of get_usage_stats
SnapshotStep(c) ==
    \/ pc[c] = "gs_lock" /\ pc'[c] = "gs_report"
    \/ pc[c] = "gs_report" /\ pc'[c] = "done"

\* the instants at which a following call may come: now, or a clock step on
LaterInstants == {now} \cup {now + d : d \in TickSteps}

\* what a call of is_allowed at time t finds and leaves, given the list s
Admission(s, t) ==
    LET w == IsAllowedOutcome(s, t, requests_per_minute, requests_per_hour)
    IN [outcome |-> w,
        timestamps |-> Recorded(CleanupOldRequests(s, t), t, w = "none")]

\* C6: a call of get_usage_stats changes nothing of what a following
\* is_allowed observes: the result of an is_allowed issued after it, at the
\* same instant or later, and the list that is_allowed leaves are those it
\* would have had without the get_usage_stats call.
C6_SnapshotIdempotent ==
    [][\A c \in Callers :
        SnapshotStep(c) =>
            \A t \in LaterInstants :
                Admission(request_timestamps', t) =
                    Admission(request_timestamps, t)
      ]_vars

\* C6 witness: at one instant, with one call recorded, a get_usage_stats
\* call has reported it and an is_allowed call issued after it was admitted
C6_Witness ==
    \E c, d \in Callers :
        /\ ticks = 0
        /\ ReturnedGetUsageStats(c)
        /\ stats[c].current_minute.count = 1
        /\ ReturnedIsAllowed(d)
        /\ allowed[d] = "True"
        /\ Len(request_timestamps) = 2

\* C7 as stated: get_usage_stats appends no timestamp and increments no
\* per-minute or per-hour counter; the only change it makes is the removal
\* of the timestamps older than 3600 seconds.
C7_SnapshotOnlyRemovesOlder ==
    [][\A c \in Callers :
        SnapshotStep(c) =>
            LET NotOlder(ts) == ~(now - ts > 3600)
            IN /\ requests_by_minute' = requests_by_minute
               /\ requests_by_hour' = requests_by_hour
               /\ \/ request_timestamps' = request_timestamps
                  \/ request_timestamps' =
                        SelectSeq(request_timestamps, NotOlder)
      ]_vars

\* one window of a report agrees with its count and with the limit
WindowReportOK(w, limit) ==
    /\ w.limit = limit
    /\ w.remaining >= 0
    /\ w.remaining = IF limit - w.count > 0 THEN limit - w.count ELSE 0
    /\ w.percent_used.den # 0
    /\ limit > 0 => w.percent_used.num * limit = w.count * 100 * w.percent_used.den
    /\ limit = 0 => w.percent_used.num = 0

\* C8: for each window get_usage_stats reports the configured limit,
\* remaining = max(0, limit - count), never negative, and percent_used =
\* count / limit * 100, with percent_used = 0 and no division by zero when
\* the limit is 0.
C8_ReportFields ==
    \A c \in Callers :
        (pc[c] = "done" /\ op[c] \in {"get_usage_stats", "status"}) =>
            /\ WindowReportOK(stats[c].current_minute, requests_per_minute)
            /\ WindowReportOK(stats[c].current_hour, requests_per_hour)

\* C8 witness: a report of one call in the minute window against a minute
\* limit of 2: one remaining, 50 percent used
C8_Witness ==
    \E c \in Callers :
        /\ ReturnedGetUsageStats(c)
        /\ stats[c].current_minute.count = 1
        /\ stats[c].current_minute.limit = 2
        /\ stats[c].current_minute.remaining = 1
        /\ stats[c].current_minute.percent_used.num = 50 * stats[c].current_minute.percent_used.den

\* C9: the minute count that get_usage_stats reports is the number of
\* admitted calls aged at most 60 seconds at the time of the report;
\* rejected calls are not counted.
C9_SnapshotCountsAdmitted ==
    [][\A c \in Callers :
        (pc[c] = "gs_report" /\ pc'[c] = "done") =>
            stats'[c].current_minute.count =
                Cardinality(AdmittedWithin(l_now[c], MinuteWindow))
      ]_vars

\* C9 witness: minute limit 2, a larger hour limit, three calls at one
\* instant answered true, true, false, and a report of count 2, remaining
\* 0, 100 percent used
C9_Witness ==
    \E c \in Callers :
        /\ requests_per_minute = 2
        /\ requests_per_hour > 2
        /\ Len(calls) = 3
        /\ calls[1].ok /\ calls[2].ok /\ ~calls[3].ok
        /\ calls[3].t = calls[1].t
        /\ now = calls[1].t
        /\ ReturnedGetUsageStats(c)
        /\ stats[c].current_minute.count = 2
        /\ stats[c].current_minute.remaining = 0
        /\ stats[c].current_minute.percent_used.num =
                100 * stats[c].current_minute.percent_used.den

\* C10 as stated: a request to a gated endpoint made while the credential
\* is unusable is answered 401 without is_allowed having been called for
\* it: it records no timestamp.
C10_CredentialGateFirst ==
    \A c \in Callers :
        (pc[c] = "done" /\ op[c] \in GatedEndpoints
            /\ ~IsCredentialValid(username)) =>
                /\ response[c].status = 401
                /\ allowed[c] = "none"
                /\ \A k \in DOMAIN calls : ~calls[k].ok

\* c has answered a request to a gated endpoint
Answered(c) == pc[c] = "done" /\ op[c] \in GatedEndpoints

\* C11 as stated: when no username is configured, every request to the
\* search, timezone, country-info and brazilian-search endpoints is
\* answered with status 401, however many requests were served before it.
C11_NoUsernameAlways401 ==
    \A c \in Callers :
        (Answered(c) /\ username \in {NoUsername, ""}) =>
            response[c].status = 401

\* C12: whenever is_allowed returns False for a request, the handler
\* answers 429 with detail "Rate limit exceeded", and neither calls the
\* GeonamesService nor sends a request to the upstream service.
C12_RejectedGets429 ==
    \A c \in Callers :
        (Answered(c) /\ allowed[c] = "False") =>
            /\ response[c].status = 429
            /\ response[c].detail = "Rate limit exceeded"
            /\ content[c].body = "error"
            /\ result[c] = "none"
            /\ sent[c] = 0

\* C12 witness: with a username and an open session, a request that
\* follows admitted ones is rejected by the limiter and answered 429
C12_Witness ==
    \E c \in Callers :
        /\ Answered(c)
        /\ session
        /\ username = "demo"
        /\ Len(calls) >= 2
        /\ calls[1].ok /\ ~calls[Len(calls)].ok
        /\ allowed[c] = "False"
        /\ response[c].status = 429

C14_UpstreamOkGives200 ==
    \A c \in Callers :
        ( /\ pc[c] = "done"
          /\ op[c] \in {"search", "timezone", "country-info"}
          /\ username # NoUsername /\ username # ""
          /\ allowed[c] = "True"
          /\ answer[c] = "ok" ) =>
            /\ response[c].status = 200
            /\ content[c].body = "upstream_json"

\* C15: when the request sent to the upstream service meets a transport
\* error or a status other than success, the handler answers 500 with the
\* fixed detail "Error contacting Geonames service"; the body is the error
\* object, never the upstream body, and the request was sent once (no
\* retry).
C15_UpstreamFailureGeneric500 ==
    \A c \in Callers :
        (Answered(c) /\ sent[c] > 0
            /\ answer[c] \in {"bad_status", "exception"}) =>
            /\ response[c].status = 500
            /\ response[c].detail = "Error contacting Geonames service"
            /\ content[c].body = "error"
            /\ sent[c] = 1

\* C15 witness: a request was sent, the upstream service answered with an
\* error status and an error body, and the handler answered 500
C15_Witness ==
    \E c \in Callers :
        /\ Answered(c)
        /\ sent[c] = 1
        /\ answer[c] = "bad_status"
        /\ result[c] = "None"
        /\ response[c].status = 500

\* the clock value that a formatted time of day stands for
AsSeconds(iso) == iso[1] * 3600 + iso[2] * 60 + iso[3]

\* C16: every 200 response of the status endpoint carries, unchanged,
\* credential_status with is_valid and last_checked as validate_credential
\* returned them, and rate_limiting with current_minute and current_hour as
\* get_usage_stats returned them.
C16_StatusRepublishes ==
    \A c \in Callers :
        (pc[c] = "done" /\ op[c] = "status" /\ response[c].status = 200) =>
            LET cs == content[c].credential_status
                rl == content[c].rate_limiting
            IN /\ content[c].body = "status_report"
               /\ {"is_valid", "last_checked"} \subseteq DOMAIN cs
               /\ cs = credential_status[c]
               /\ cs.is_valid = (username # NoUsername /\ username # "")
               /\ AsSeconds(cs.last_checked) = last_validation
               /\ {"current_minute", "current_hour"} \subseteq DOMAIN rl
               /\ rl = stats[c]
               /\ rl.current_minute.limit = requests_per_minute
               /\ rl.current_hour.limit = requests_per_hour
               /\ rl.current_minute.count =
                    Cardinality(TimestampsWithin(last_validation, MinuteWindow))
               /\ rl.current_hour.count =
                    Cardinality(TimestampsWithin(last_validation, HourWindow))

\* C16 witness: a status response after one admitted request and a clock
\* step: the credential is valid, the check is dated after time 0, no
\* request in the current minute and one in the current hour
C16_Witness ==
    \E c \in Callers :
        /\ pc[c] = "done" /\ op[c] = "status"
        /\ response[c].status = 200
        /\ content[c].credential_status.is_valid
        /\ AsSeconds(content[c].credential_status.last_checked) > 0
        /\ content[c].rate_limiting.current_minute.count = 0
        /\ content[c].rate_limiting.current_hour.count = 1

\* c calls the method m of the CredentialManager and it returns
CallsCredentialMethod(c, m) ==
    pc[c] = "idle" /\ pc'[c] = "done" /\ op'[c] = m

\* C17: is_credential_valid returns True if and only if the configured
\* username is a non-empty string (None and "" give False), and the call
\* changes nothing of the CredentialManager.
C17_IsUsableIffNonEmpty ==
    [][\A c \in Callers :
        CallsCredentialMethod(c, "is_credential_valid") =>
            /\ returned'[c] \in {"True", "False"}
            /\ returned'[c] = "True"
                    <=> (username # NoUsername /\ username # "")
            /\ username' = username
            /\ last_validation' = last_validation
            /\ validation_result' = validation_result
      ]_vars

\* C17 witness: after a validation, is_credential_valid has returned False
\* for the empty username
C17_Witness ==
    \E c \in Callers :
        /\ pc[c] = "done" /\ op[c] = "is_credential_valid"
        /\ username = ""
        /\ returned[c] = "False"
        /\ last_validation # NoTime

\* c runs validate_credential: called directly or by the status handler
Validates(c) ==
    \/ CallsCredentialMethod(c, "validate_credential")
    \/ CallsCredentialMethod(c, "status")

\* C18: validate_credential returns is_valid equal to what
\* is_credential_valid returns, records that outcome and the current time
\* as the last validation, dates its result with the current time, and its
\* result holds an error message, non-empty, if and only if the credential
\* is unusable.
C18_ValidateRecordsOutcome ==
    [][\A c \in Callers :
        Validates(c) =>
            LET r == credential_status'[c]
            IN /\ r.is_valid = (username # NoUsername /\ username # "")
               /\ validation_result' = r.is_valid
               /\ last_validation' = now
               /\ AsSeconds(r.last_checked) = now
               /\ "error" \in DOMAIN r <=> ~r.is_valid
               /\ "error" \in DOMAIN r => r.error # ""
      ]_vars

\* C18 witness: validate_credential, called after the clock has advanced
\* and with no username configured, has returned is_valid False and an
\* error message
C18_Witness ==
    \E c \in Callers :
        /\ pc[c] = "done" /\ op[c] = "validate_credential"
        /\ username = NoUsername
        /\ ~credential_status[c].is_valid
        /\ "error" \in DOMAIN credential_status[c]
        /\ last_validation > 0
        /\ validation_result = FALSE

C20_RotationNeverHappens ==
    \A c \in Callers :
        (pc[c] = "done" /\ op[c] \in {"rotate_credential", "needs_rotation"})
            => returned[c] = "False"

\* C20 witness: with a username and the quota of the minute used up,
\* rotate_credential and needs_rotation have both returned False
C20_Witness ==
    \E c, d \in Callers :
        /\ pc[c] = "done" /\ op[c] = "rotate_credential"
        /\ pc[d] = "done" /\ op[d] = "needs_rotation"
        /\ returned[c] = "False" /\ returned[d] = "False"
        /\ username = "demo"
        /\ Len(request_timestamps) >= requests_per_minute
        /\ calls # <<>> /\ ~calls[Len(calls)].ok

\* C21: the username held by the CredentialManager never changes: no
\* sequence of is_credential_valid, validate_credential, needs_rotation
\* and rotate_credential calls, nor any request, changes it or moves the
\* credential between usable and unusable.
C21_UsernameImmutable ==
    [][/\ username' = username
       /\ (username' # NoUsername /\ username' # "")
            <=> (username # NoUsername /\ username # "")
      ]_vars

\* C21 witness: with the username "demo", a validation was made and
\* rotate_credential and is_credential_valid have returned
C21_Witness ==
    \E c, d \in Callers :
        /\ username = "demo"
        /\ last_validation # NoTime
        /\ pc[c] = "done" /\ op[c] = "rotate_credential"
        /\ pc[d] = "done" /\ op[d] = "is_credential_valid"
        /\ returned[d] = "True"

\* C22: _last_validation and _validation_result change only in
\* validate_credential (called directly or by the status handler):
\* is_credential_valid, get_current_credential_info, needs_rotation,
\* rotate_credential, the gated handlers with their RateLimiter calls and
\* the clock leave both unchanged.
C22_ValidationChangesOnlyInValidate ==
    [][(last_validation' # last_validation
            \/ validation_result' # validation_result)
        => \E c \in Callers : Validates(c)
      ]_vars

\* C22 witness: after a validation that found the credential usable,
\* get_current_credential_info has returned the recorded time and outcome
\* while a gated request was answered later
C22_Witness ==
    \E c \in Callers :
        /\ pc[c] = "done" /\ op[c] = "get_current_credential_info"
        /\ validation_result = TRUE
        /\ returned[c].validation_result = TRUE
        /\ returned[c].last_validation = last_validation
        /\ last_validation # NoTime
        /\ last_validation < now
        /\ calls # <<>>

\* c returns from is_allowed or from get_usage_stats
Accessed(c) ==
    pc[c] \in {"ia_check", "gs_report"} /\ pc'[c] = "done"

\* C23 as stated: after every call of is_allowed or get_usage_stats the
\* RateLimiter holds no entry that refers to a call older than 3600
\* seconds: no such timestamp, and no per-minute or per-hour counter key
\* whose calls are all older than that.
C23_StateBoundedByLastHour ==
    [][\A c \in Callers :
        Accessed(c) =>
            LET recent == {j \in DOMAIN calls' :
                            calls'[j].ok /\ ~(l_now[c] - calls'[j].t > 3600)}
            IN /\ \A i \in DOMAIN request_timestamps' :
                    ~(l_now[c] - request_timestamps'[i] > 3600)
               /\ \A k \in DOMAIN requests_by_minute' :
                    \E j \in recent : calls'[j].t \div 60 = k
               /\ \A k \in DOMAIN requests_by_hour' :
                    \E j \in recent : calls'[j].t \div 3600 = k
      ]_vars

\* the callers inside the block of `async with self._lock`
InsideLock == {c \in Callers : pc[c] \in {"ia_check", "gs_report"}}

\* at most one caller is inside the block of the lock, and it holds the lock
MutualExclusion ==
    /\ Cardinality(InsideLock) <= 1
    /\ \A c \in InsideLock : lock = c

\* C24: at most one caller at a time is inside the block of the lock of
\* is_allowed or get_usage_stats, and a caller inside it is not suspended:
\* no other task takes a step until it has left the block.
C24_ExclusiveAndNotSuspended ==
    [][/\ MutualExclusion
       /\ MutualExclusion'
       /\ \A c \in InsideLock :
            \A d \in Callers \ {c} : pc'[d] = pc[d]
      ]_vars

\* C24 witness: a caller is inside the block of is_allowed, holding the
\* lock, after another caller's is_allowed has returned
C24_Witness ==
    \E c, d \in Callers :
        /\ c # d
        /\ pc[c] = "ia_check"
        /\ lock = c
        /\ pc[d] = "done" /\ op[d] = "is_allowed"

\* C25: in every 200 response of the brazilian-search endpoint, each
\* returned location whose country is Brazil (countryCode 'BR' upstream)
\* carries a portugueseName field
BrazilianAnswered(c) ==
    /\ pc[c] = "done"
    /\ op[c] = "brazilian-search"
    /\ response[c].status = 200

C25_BrazilianCarryPortugueseName ==
    \A c \in Callers :
        BrazilianAnswered(c) =>
            \A i \in DOMAIN geonames[c] :
                geonames[c][i].countryCode = "BR" =>
                    "portugueseName" \in DOMAIN content[c].geonames[i]

\* the admitted calls of the history, in the order they were made
AdmittedCalls == SelectSeq(calls, LAMBDA r : r.ok)

\* the time of the oldest of the last requests_per_minute admitted calls
OldestOfLastMinuteLimit ==
    AdmittedCalls[Len(AdmittedCalls) - requests_per_minute + 1].t

\* the minute quota has been used in full at least once
MinuteQuotaUsed ==
    requests_per_minute > 0 /\ Len(AdmittedCalls) >= requests_per_minute

\* C26: recovery after exhaustion. Once the minute quota is exhausted a
\* call of is_allowed returns false while the oldest of the last
\* requests_per_minute admitted calls is aged at most 60 seconds; when more
\* than 60 seconds have passed since that call and fewer than
\* requests_per_hour calls were admitted in the last 3600 seconds, the call
\* returns true.
C26_RecoversAfterMinuteWindow ==
    [][\A c \in Callers :
        ChecksLimits(c) /\ MinuteQuotaUsed =>
            /\ l_now[c] - OldestOfLastMinuteLimit <= MinuteWindow
                  => allowed'[c] = "False"
            /\ (/\ l_now[c] - OldestOfLastMinuteLimit > MinuteWindow
                /\ Cardinality(AdmittedWithin(l_now[c], HourWindow))
                        < requests_per_hour)
                  => allowed'[c] = "True"
      ]_vars

\* C26 witness: with minute limit 1 a call was admitted, a second call at
\* the same instant was rejected, and a call made 120 seconds later was
\* admitted
C26_Witness ==
    /\ requests_per_minute = 1
    /\ Len(calls) >= 3
    /\ calls[1].ok
    /\ ~calls[2].ok /\ calls[2].t = calls[1].t
    /\ calls[3].ok /\ calls[3].t - calls[1].t = 2 * MinuteWindow

\* c takes a step of is_allowed
IsAllowedStep(c) ==
    \/ pc[c] = "ia_lock" /\ pc'[c] = "ia_check"
    \/ ChecksLimits(c)

\* C28: a call of is_allowed records the current timestamp if and only if
\* it returns true. An admitted call appends its timestamp and increments
\* the counter of its minute and of its hour; a rejected call appends
\* nothing and increments no counter, and no step of a rejected call
\* changes what a following call finds, at the same instant or later.
C28_RecordsIffAdmitted ==
    [][\A c \in Callers :
        /\ ChecksLimits(c) /\ allowed'[c] = "True" =>
              /\ request_timestamps' = Append(request_timestamps, l_now[c])
              /\ requests_by_minute' =
                    Increment(requests_by_minute, GetMinuteKey(l_now[c]))
              /\ requests_by_hour' =
                    Increment(requests_by_hour, GetHourKey(l_now[c]))
        /\ ChecksLimits(c) /\ allowed'[c] = "False" =>
              /\ request_timestamps' = request_timestamps
              /\ requests_by_minute' = requests_by_minute
              /\ requests_by_hour' = requests_by_hour
        /\ IsAllowedStep(c) /\ allowed'[c] # "True" =>
              \A t \in LaterInstants :
                  Admission(request_timestamps', t) =
                      Admission(request_timestamps, t)
      ]_vars

\* C28 witness: with minute limit 1 a call was admitted, a call made 60
\* seconds later was rejected and left no trace, and a call made 60 seconds
\* after the rejected one was admitted
C28_Witness ==
    /\ requests_per_minute = 1
    /\ Len(calls) >= 3
    /\ calls[1].ok /\ calls[1].t = 0
    /\ ~calls[2].ok /\ calls[2].t = MinuteWindow
    /\ calls[3].ok /\ calls[3].t = 2 * MinuteWindow
    /\ request_timestamps = <<0, 2 * MinuteWindow>>
    /\ DOMAIN requests_by_minute = {0, 2}

\* C29: sliding-window bound on the hour quota. For any two instants
\* t <= u with u - t <= 3600 seconds (boundary included), the calls
\* admitted by is_allowed with timestamps in [t, u] number at most
\* requests_per_hour: a timestamp aged exactly 3600 seconds still counts,
\* as one aged exactly 60 seconds does for the minute window.
C29_HourSlidingWindowBound ==
    \A k \in DOMAIN calls :
        calls[k].ok =>
            Cardinality({j \in 1..k : calls[j].ok
                            /\ calls[k].t - calls[j].t <= HourWindow})
                <= requests_per_hour

\* c takes the step of a gated handler and is_allowed admits the request
AdmittedRequest(c) ==
    /\ pc[c] = "idle"
    /\ pc'[c] = "done"
    /\ op'[c] \in GatedEndpoints
    /\ allowed'[c] = "True"

\* the entries of the list s that hold the timestamp ts
EntriesOf(s, ts) == {i \in DOMAIN s : s[i] = ts}

\* C30: quota is spent at admission and never refunded. When is_allowed
\* has admitted a request, the list holds its timestamp when the handler
\* answers, whatever the status of the response (200, 401 or 500); and no
\* step of the application removes a timestamp aged less than 3600 seconds.
C30_QuotaNeverRefunded ==
    [][/\ \A c \in Callers :
            AdmittedRequest(c) =>
                /\ response'[c].status \in {200, 401, 500}
                /\ request_timestamps' # <<>>
                /\ request_timestamps'[Len(request_timestamps')] = now
       /\ \A i \in DOMAIN request_timestamps :
            now - request_timestamps[i] < KeepWindow =>
                Cardinality(EntriesOf(request_timestamps',
                                      request_timestamps[i]))
                    >= Cardinality(EntriesOf(request_timestamps,
                                             request_timestamps[i]))
      ]_vars

\* C30 witness: without a credential, a request was admitted and answered
\* 401; 60 seconds later a second request was admitted and answered 401,
\* and the list holds the timestamps of both
C30_Witness ==
    \E c \in Callers :
        /\ Answered(c) /\ allowed[c] = "True" /\ response[c].status = 401
        /\ ~IsCredentialValid(username)
        /\ Len(calls) = 2
        /\ calls[1].ok /\ calls[2].ok
        /\ calls[2].t = calls[1].t + MinuteWindow
        /\ request_timestamps = <<calls[1].t, calls[2].t>>

\* c is inside a call of is_allowed or get_usage_stats
InsideCall(c) == pc[c] \in {"ia_lock", "ia_check", "gs_lock", "gs_report"}

\* c has returned from its call and does not hold the lock
ReturnedAndReleased(c) == pc[c] = "done" /\ lock # c

\* C27: every call of is_allowed and get_usage_stats terminates. Under
\* fair scheduling of the concurrent callers, each caller that has entered
\* a call eventually acquires the lock, returns its result and has released
\* the lock: no deadlock, no caller waits forever.
C27_EveryCallTerminates ==
    \A c \in Callers : InsideCall(c) ~> ReturnedAndReleased(c)

\* C27 witness: two callers were inside their calls at one instant; the
\* get_usage_stats call took the lock first and reported no request, the
\* is_allowed call took it next and was admitted; both have returned and
\* the lock is free
C27_Witness ==
    \E c, d \in Callers :
        /\ c # d
        /\ ticks = 0
        /\ ReturnedIsAllowed(c) /\ allowed[c] = "True"
        /\ ReturnedGetUsageStats(d)
        /\ stats[d].current_minute.count = 0
        /\ Len(request_timestamps) = 1
        /\ lock = NoCaller

====
